---------------------------- MODULE Spec2Model ----------------------------
(***************************************************************************)
(* Prapti: a fetch wrapper that validates the outgoing request and the     *)
(* incoming response against schemas through a pluggable adapter.          *)
(*                                                                         *)
(* The model follows Prapti.fetch (the request orchestrator) and          *)
(* ValidatedResponse (the response decorator).  The validation adapter,    *)
(* the serializer and the transport are the collaborators: the adapter's   *)
(* answer to each parse is drawn from a small set of outcomes, the         *)
(* transport's answer from a small set of responses.                       *)
(***************************************************************************)
EXTENDS Integers, Sequences, FiniteSets

VARIABLES
  config,     \* the client's configuration: header mode, form-data value mode
  pc,         \* where the one fetch call is: idle, awaiting, resolved, rejected
  call,       \* the arguments of the call
  err,        \* the error the call rejected with
  sent,       \* the transport invocations, in order
  log,        \* adapter and transport events of the call, in order
  resps,      \* the response objects the caller holds (decorators and plain clones)
  reads,      \* the body-reading calls made so far, with their outcomes
  gets,       \* the validatedHeaders accesses made so far, with their outcomes
  helper      \* a helper function applied on its own: its input and its results

vars == <<config, pc, call, err, sent, log, resps, reads, gets, helper>>

---------------------------------------------------------------------------
(* Bounds of the model. *)

\* the longest header list a caller supplies as a pair-sequence or a mapping
MaxHeaders == 2
\* the number of response objects a caller holds (the decorator and its clones)
MaxResponses == 2
\* the number of body-reading calls made on the response objects of one call
MaxReads == 2
\* the number of validatedHeaders accesses on the response objects of one call
MaxGets == 2
\* the number of entries of a form-data or url-search-params container
MaxEntries == 3
\* the number of whitespace characters on either side of a media type
MaxPadding == 1

---------------------------------------------------------------------------
(* JavaScript values. *)

Undef == [t |-> "undefined"]
Null == [t |-> "null"]
Num(n) == [t |-> "number", n |-> n]
\* a string that is not JSON text
Lit(s) == [t |-> "string", c |-> [lit |-> s]]
\* the JSON text of a value
JsonText(v) == [t |-> "string", c |-> [json |-> v]]
\* a plain object: its entries in insertion order
Obj(e) == [t |-> "object", e |-> e]
Arr(e) == [t |-> "array", e |-> e]
Bool(b) == [t |-> "boolean", b |-> b]
\* a pending result (a Promise)
Pending == [t |-> "promise"]
FormDataOf(e) == [t |-> "FormData", e |-> e]
SearchParamsOf(e) == [t |-> "URLSearchParams", e |-> e]
Binary(kind) == [t |-> kind]

BinaryKinds == {"Blob", "ArrayBuffer", "TypedArray", "ReadableStream"}

IsNullish(v) == v.t \in {"undefined", "null"}

\* `x && typeof x === "object"`
IsTruthyObject(v) == v.t \notin {"undefined", "null", "string", "number", "boolean", "function"}

IndexKeys == <<"0", "1", "2", "3">>

\* Object.entries(v): own enumerable entries, in order; null and undefined
\* have none to give (a TypeError), a string gives its characters
EntriesThrows(v) == IsNullish(v)

Entries(v) ==
  CASE v.t = "object" -> v.e
    [] v.t = "array" -> [i \in 1..Len(v.e) |-> <<IndexKeys[i], v.e[i]>>]
    [] v.t = "string" /\ v = [t |-> "string", c |-> [lit |-> "s"]] -> << <<"0", v>> >>
    [] v.t = "string" -> << <<"0", [t |-> "string", c |-> [lit |-> "<char>"]]>> >>
    [] OTHER -> <<>>

\* String(v)
StringOf(v) ==
  CASE v.t = "string" -> (IF "lit" \in DOMAIN v.c THEN v.c.lit ELSE "<json text>")
    [] v.t = "number" -> (CASE v.n = 1 -> "1" [] v.n = 2 -> "2" [] OTHER -> "7")
    [] v.t = "null" -> "null"
    [] v.t = "undefined" -> "undefined"
    [] v.t = "boolean" -> (IF v.b THEN "true" ELSE "false")
    [] v.t = "array" -> (IF v.e = <<>> THEN "" ELSE "<joined items>")
    [] v.t = "promise" -> "[object Promise]"
    [] v.t = "function" -> "function Object() { [native code] }"
    [] OTHER -> "[object Object]"

---------------------------------------------------------------------------
(* Maps from header names to values (a plain object, or a Headers          *)
(* collection, whose names compare case-insensitively).                    *)

EmptyMap == [x \in {} |-> ""]

\* String.prototype.toLowerCase on the header names in use
Lower(name) ==
  CASE name = "X-A" -> "x-a"
    [] name = "X-B" -> "x-b"
    [] name = "Content-Type" -> "content-type"
    [] name = "Authorization" -> "authorization"
    [] OTHER -> name

Put(m, k, v) == [x \in (DOMAIN m) \cup {k} |-> IF x = k THEN v ELSE m[x]]
Remove(m, k) == [x \in (DOMAIN m) \ {k} |-> m[x]]

\* Headers.prototype.set / delete / has / get: the name is matched lower-cased
HeadersSet(h, name, value) == Put(h, Lower(name), value)
HeadersDelete(h, name) == Remove(h, Lower(name))
HeadersHas(h, name) == Lower(name) \in DOMAIN h
HeadersGet(h, name) ==
  IF HeadersHas(h, name) THEN [null |-> FALSE, s |-> h[Lower(name)]]
  ELSE [null |-> TRUE, s |-> ""]

---------------------------------------------------------------------------
(* The serializer (default: JSON). *)

\* serializer.stringify: JSON.stringify gives no text for undefined
Stringify(v) == IF v.t = "undefined" THEN Undef ELSE JsonText(v)

\* serializer.parse: the value of a JSON text; anything else is a SyntaxError
ParseThrows(s) == ~(s.t = "string" /\ "json" \in DOMAIN s.c)
Parse(s) == s.c.json

\* a string as the sequence of its characters, for the header values in use;
\* any other value in use is one symbol that no media type contains
Chars(s) ==
  CASE s = "" -> <<>>
    [] s = "application/json" ->
       <<"a", "p", "p", "l", "i", "c", "a", "t", "i", "o", "n", "/", "j", "s", "o", "n">>
    [] s = "Application/Vnd.Api+JSON; charset=utf-8" ->
       <<"A", "p", "p", "l", "i", "c", "a", "t", "i", "o", "n", "/", "V", "n", "d", ".",
         "A", "p", "i", "+", "J", "S", "O", "N", ";", " ", "c", "h", "a", "r", "s", "e",
         "t", "=", "u", "t", "f", "-", "8">>
    [] s = "text/plain" ->
       <<"t", "e", "x", "t", "/", "p", "l", "a", "i", "n">>
    [] s = "application/x-www-form-urlencoded" ->
       <<"a", "p", "p", "l", "i", "c", "a", "t", "i", "o", "n", "/", "x", "-", "w", "w",
         "w", "-", "f", "o", "r", "m", "-", "u", "r", "l", "e", "n", "c", "o", "d", "e",
         "d">>
    [] OTHER -> <<s>>

UpperLetters ==
  <<"A", "B", "C", "D", "E", "F", "G", "H", "I", "J", "K", "L", "M",
    "N", "O", "P", "Q", "R", "S", "T", "U", "V", "W", "X", "Y", "Z">>
LowerLetters ==
  <<"a", "b", "c", "d", "e", "f", "g", "h", "i", "j", "k", "l", "m",
    "n", "o", "p", "q", "r", "s", "t", "u", "v", "w", "x", "y", "z">>

\* String.prototype.toLowerCase
toLowerCase(cs) ==
  [i \in 1..Len(cs) |->
     IF \E k \in 1..Len(UpperLetters) : UpperLetters[k] = cs[i]
     THEN LowerLetters[CHOOSE k \in 1..Len(UpperLetters) : UpperLetters[k] = cs[i]]
     ELSE cs[i]]

\* cs.split(";")[0]: what precedes the first ";"
SplitFirst(cs) ==
  IF \E i \in 1..Len(cs) : cs[i] = ";"
  THEN SubSeq(cs, 1, (CHOOSE i \in 1..Len(cs) : cs[i] = ";" /\ \A j \in 1..(i - 1) : cs[j] # ";") - 1)
  ELSE cs

WhiteSpace == {" ", "\t"}

\* String.prototype.trim
RECURSIVE trimStart(_)
trimStart(cs) == IF cs # <<>> /\ Head(cs) \in WhiteSpace THEN trimStart(Tail(cs)) ELSE cs
RECURSIVE trimEnd(_)
trimEnd(cs) ==
  IF cs # <<>> /\ cs[Len(cs)] \in WhiteSpace THEN trimEnd(SubSeq(cs, 1, Len(cs) - 1)) ELSE cs
trim(cs) == trimEnd(trimStart(cs))

startsWith(cs, prefix) == Len(cs) >= Len(prefix) /\ SubSeq(cs, 1, Len(prefix)) = prefix
endsWith(cs, suffix) ==
  Len(cs) >= Len(suffix) /\ SubSeq(cs, Len(cs) - Len(suffix) + 1, Len(cs)) = suffix

ApplicationJson == Chars("application/json")
ApplicationSlash == SubSeq(ApplicationJson, 1, 12)
PlusJson == <<"+">> \o SubSeq(ApplicationJson, 13, 16)

\* a bug that compares the media type without lower-casing it
TrimmedMediaTypeCaseSensitive(contentType) == trim(SplitFirst(contentType))

\* normalized = toLowerCase, mediaType = split(";")[0], trimmedMediaType = trim
TrimmedMediaType(contentType) == trim(SplitFirst(toLowerCase(contentType)))

StartsWithApplication(mediaType) == startsWith(mediaType, ApplicationSlash)

EndsWithPlusJson(mediaType) == endsWith(mediaType, PlusJson)

\* defaultSerializer.isJsonContentType on null or a string given by its characters
defaultIsJsonContentType(contentType) ==
  IF contentType.null \/ contentType.cs = <<>> THEN FALSE
  ELSE LET trimmedMediaType == TrimmedMediaType(contentType.cs)
       IN  \/ trimmedMediaType = ApplicationJson
           \/ (StartsWithApplication(trimmedMediaType) /\ EndsWithPlusJson(trimmedMediaType))

\* contentType is what Headers.get gave: null or a string
isJsonContentType(contentType) ==
  defaultIsJsonContentType([null |-> contentType.null, cs |-> Chars(contentType.s)])

---------------------------------------------------------------------------
(* Header Normalizer. *)

NoHeaders == [shape |-> "none", e |-> <<>>]

RECURSIVE CopyHeaders(_, _)
CopyHeaders(e, obj) ==
  IF e = <<>> THEN obj
  ELSE CopyHeaders(Tail(e), Put(obj, Lower(Head(e)[1]), StringOf(Head(e)[2])))

\* a bug that keeps the case of the names of a pair-sequence or a mapping
RECURSIVE CopyDefinedCaseKept(_, _)
CopyDefinedCaseKept(e, obj) ==
  IF e = <<>> THEN obj
  ELSE CopyDefinedCaseKept(Tail(e),
         IF IsNullish(Head(e)[2]) THEN obj
         ELSE Put(obj, Head(e)[1], StringOf(Head(e)[2])))

RECURSIVE CopyDefined(_, _)
CopyDefined(e, obj) ==
  IF e = <<>> THEN obj
  ELSE CopyDefined(Tail(e),
         IF IsNullish(Head(e)[2]) THEN obj
         ELSE Put(obj, Lower(Head(e)[1]), StringOf(Head(e)[2])))

headersToObject(headers) ==
  CASE headers.shape = "none" -> EmptyMap
    [] headers.shape = "Headers" -> CopyHeaders(headers.e, EmptyMap)
    [] headers.shape = "pairs" -> CopyDefined(headers.e, EmptyMap)
    [] OTHER -> CopyDefined(headers.e, EmptyMap)

---------------------------------------------------------------------------
(* Body helpers: flatten a form container, rebuild it. *)

\* the place of key k among the entries of an object, 0 when it has none
IndexOfKey(e, k) ==
  IF \E i \in 1..Len(e) : e[i][1] = k
  THEN CHOOSE i \in 1..Len(e) : e[i][1] = k
  ELSE 0

\* the names a plain object `{}` inherits from Object.prototype, and what
\* reading one of them gives
InheritedNames == {"constructor", "toString", "valueOf", "hasOwnProperty"}
InheritedFunction == [t |-> "function"]

\* result[key]: the own property, else the inherited one, else undefined
Lookup(result, key) ==
  IF IndexOfKey(result, key) # 0 THEN result[IndexOfKey(result, key)][2]
  ELSE IF key \in InheritedNames THEN InheritedFunction
  ELSE Undef

\* result[key] = v: replaces the own property or creates it
Assign(result, key, v) ==
  IF IndexOfKey(result, key) # 0
  THEN [result EXCEPT ![IndexOfKey(result, key)] = <<key, v>>]
  ELSE Append(result, <<key, v>>)

RECURSIVE Flatten(_, _)
Flatten(entries, result) ==
  IF entries = <<>> THEN result
  ELSE LET key == Head(entries)[1]
           value == Lit(Head(entries)[2])
           current == Lookup(result, key)
       IN  Flatten(Tail(entries),
             IF current # Undef
             THEN IF current.t = "array"
                  THEN Assign(result, key, Arr(Append(current.e, value)))
                  ELSE Assign(result, key, Arr(<<current, value>>))
             ELSE Assign(result, key, value))

formDataToObject(formData) == Obj(Flatten(formData.e, <<>>))
urlSearchParamsToObject(params) == Obj(Flatten(params.e, <<>>))

isAllowedFormDataScalar(value) == value.t \in {"string", "number", "boolean"}

\* a bug that appends whatever it is given under the strict policy too
AppendThrowsNever(value, mode) == FALSE

\* appendFormDataValue: the entry appended, or a throw
AppendThrows(value, mode) ==
  /\ value.t # "Blob"
  /\ mode # "native"
  /\ ~isAllowedFormDataScalar(value)

AppendedValue(value) == IF value.t = "Blob" THEN "<blob>" ELSE StringOf(value)

\* the (key, item) appends objectToFormData makes, in order
RECURSIVE Appends(_)
Appends(e) ==
  IF e = <<>> THEN <<>>
  ELSE LET key == Head(e)[1]
           value == Head(e)[2]
       IN  (IF value.t = "array"
            THEN [i \in 1..Len(value.e) |-> <<key, value.e[i]>>]
            ELSE << <<key, value>> >>) \o Appends(Tail(e))

objectToFormDataThrows(obj, mode) ==
  \/ EntriesThrows(obj)
  \/ \E i \in 1..Len(Appends(Entries(obj))) : AppendThrows(Appends(Entries(obj))[i][2], mode)

objectToFormData(obj, mode) ==
  LET a == Appends(Entries(obj))
  IN  FormDataOf([i \in 1..Len(a) |-> <<a[i][1], AppendedValue(a[i][2])>>])

objectToUrlSearchParamsThrows(obj) == EntriesThrows(obj)

objectToUrlSearchParams(obj) ==
  LET a == Appends(Entries(obj))
  IN  SearchParamsOf([i \in 1..Len(a) |-> <<a[i][1], StringOf(a[i][2])>>])

---------------------------------------------------------------------------
(* The validation adapter: parse(schema, data) throws or returns a value.  *)
(* An outcome says what it does on the data it is given.                   *)

Throw(e) == [k |-> "throw", e |-> e, v |-> Undef]
Return(v) == [k |-> "return", e |-> "", v |-> v]
\* a schema that passes its input through unchanged
Same == [k |-> "same", e |-> "", v |-> Undef]
\* the slot has no schema: the adapter is not asked
Unasked == [k |-> "unasked", e |-> "", v |-> Undef]

Parsed(outcome, data) == IF outcome.k = "same" THEN data ELSE outcome.v

\* a bug that wraps what the adapter threw in an error of the pipeline's own
AdapterErrorWrapped(e) == [kind |-> "Error", id |-> "validation failed"]

AdapterError(e) == [kind |-> "adapter", id |-> e]
NoError == [kind |-> "none", id |-> ""]

\* a header map as the plain object handed to the adapter
RECURSIVE EntriesOfMap(_)
EntriesOfMap(m) ==
  IF DOMAIN m = {} THEN <<>>
  ELSE LET k == CHOOSE x \in DOMAIN m : TRUE
       IN  << <<k, Lit(m[k])>> >> \o EntriesOfMap(Remove(m, k))

ObjectOfMap(m) == Obj(EntriesOfMap(m))

Event(ev, slot, data) == [ev |-> ev, slot |-> slot, data |-> data]

---------------------------------------------------------------------------
(* Request Orchestrator: Prapti.fetch up to the transport call. *)

\* the forEach over the validated entries: null/undefined deletes, else set
RECURSIVE MergeValidated(_, _)
MergeValidated(e, finalHeaders) ==
  IF e = <<>> THEN finalHeaders
  ELSE LET key == Head(e)[1]
           value == Head(e)[2]
       IN  MergeValidated(Tail(e),
             IF IsNullish(value) THEN HeadersDelete(finalHeaders, key)
             ELSE HeadersSet(finalHeaders, key, StringOf(value)))

\* a bug that keeps the caller's headers in strict mode too
PreservedHeadersAlways(rawHeaders, mode) == rawHeaders

\* a bug that keeps one header collection on the client, shared by its calls
NewHeadersShared ==
  IF helper.fn = "suspended" /\ helper.state.sent # <<>>
  THEN helper.state.sent[1].headers ELSE EmptyMap

\* new Headers(): the collection a call starts its finalHeaders with
NewHeaders == EmptyMap

\* the forEach that sets every raw header on finalHeaders
SetAll(rawHeaders, finalHeaders) ==
  [k \in DOMAIN rawHeaders \cup DOMAIN finalHeaders |->
     IF k \in DOMAIN rawHeaders THEN rawHeaders[k] ELSE finalHeaders[k]]

\* the headers the original set starts finalHeaders with, by mode
PreservedHeaders(rawHeaders, mode) ==
  IF mode = "preserve" THEN SetAll(rawHeaders, NewHeaders) ELSE NewHeaders

\* a bug that skips header validation when the caller supplied no headers
RequestHeadersSkippingAbsent(a, cfg) ==
  LET rawHeaders == headersToObject(a.headers)
  IN  IF a.validate.requestHeaders /\ a.headers # NoHeaders
      THEN LET base == PreservedHeaders(rawHeaders, cfg.headerValidationMode)
               asked == <<Event("adapter", "request.headers", ObjectOfMap(rawHeaders))>>
               validatedHeaders == Parsed(a.hdrOut, ObjectOfMap(rawHeaders))
           IN  IF a.hdrOut.k = "throw"
               THEN [ok |-> FALSE, err |-> AdapterError(a.hdrOut.e), headers |-> base,
                     events |-> asked]
               ELSE [ok |-> TRUE, err |-> NoError,
                     headers |-> IF IsTruthyObject(validatedHeaders)
                                 THEN MergeValidated(Entries(validatedHeaders), base)
                                 ELSE base,
                     events |-> asked]
      ELSE [ok |-> TRUE, err |-> NoError, headers |-> SetAll(rawHeaders, NewHeaders),
            events |-> <<>>]

\* the request header step: [ok, err, headers, events]
RequestHeaders(a, cfg) ==
  LET rawHeaders == headersToObject(a.headers)
  IN  IF a.validate.requestHeaders
      THEN LET base == PreservedHeaders(rawHeaders, cfg.headerValidationMode)
               asked == <<Event("adapter", "request.headers", ObjectOfMap(rawHeaders))>>
               validatedHeaders == Parsed(a.hdrOut, ObjectOfMap(rawHeaders))
           IN  IF a.hdrOut.k = "throw"
               THEN [ok |-> FALSE, err |-> AdapterError(a.hdrOut.e), headers |-> base,
                     events |-> asked]
               ELSE [ok |-> TRUE, err |-> NoError,
                     headers |-> IF IsTruthyObject(validatedHeaders)
                                 THEN MergeValidated(Entries(validatedHeaders), base)
                                 ELSE base,
                     events |-> asked]
      ELSE [ok |-> TRUE, err |-> NoError, headers |-> SetAll(rawHeaders, NewHeaders),
            events |-> <<>>]

\* a bug that falls back to the raw string when a JSON body does not decode
ParsedBodyLenient(body, contentType) ==
  CASE body.t = "string" ->
         IF isJsonContentType(contentType) \/ contentType.null
         THEN [ok |-> TRUE, v |-> IF ParseThrows(body) THEN body ELSE Parse(body)]
         ELSE [ok |-> TRUE, v |-> body]
    [] body.t = "FormData" -> [ok |-> TRUE, v |-> formDataToObject(body)]
    [] body.t = "URLSearchParams" -> [ok |-> TRUE, v |-> urlSearchParamsToObject(body)]
    [] OTHER -> [ok |-> TRUE, v |-> body]

\* the pre-image handed to the body schema: [ok, v]
ParsedBody(body, contentType) ==
  CASE body.t = "string" ->
         IF isJsonContentType(contentType)
         THEN IF ParseThrows(body) THEN [ok |-> FALSE, v |-> Undef]
              ELSE [ok |-> TRUE, v |-> Parse(body)]
         ELSE IF contentType.null
              THEN [ok |-> TRUE, v |-> IF ParseThrows(body) THEN body ELSE Parse(body)]
              ELSE [ok |-> TRUE, v |-> body]
    [] body.t = "FormData" -> [ok |-> TRUE, v |-> formDataToObject(body)]
    [] body.t = "URLSearchParams" -> [ok |-> TRUE, v |-> urlSearchParamsToObject(body)]
    [] OTHER -> [ok |-> TRUE, v |-> body]

\* a bug that lets the body step add content-type under a header schema
CanAutoSetContentTypeAlways(a) == TRUE

\* whether the body step may add content-type after encoding a validated body
CanAutoSetContentType(a) == ~a.validate.requestHeaders

\* the wire form of the validated data: [ok, err, body, headers]
EncodeValidated(a, validatedData, contentType, finalHeaders) ==
  CASE a.body.t = "FormData" ->
         IF objectToFormDataThrows(validatedData, "native")
         THEN [ok |-> FALSE, err |-> [kind |-> "TypeError", id |-> "entries"],
               body |-> Undef, headers |-> finalHeaders]
         ELSE [ok |-> TRUE, err |-> NoError,
               body |-> objectToFormData(validatedData, "native"), headers |-> finalHeaders]
    [] a.body.t = "URLSearchParams" ->
         IF objectToUrlSearchParamsThrows(validatedData)
         THEN [ok |-> FALSE, err |-> [kind |-> "TypeError", id |-> "entries"],
               body |-> Undef, headers |-> finalHeaders]
         ELSE [ok |-> TRUE, err |-> NoError,
               body |-> objectToUrlSearchParams(validatedData), headers |-> finalHeaders]
    [] OTHER ->
         LET usedJsonSerializer ==
               IF validatedData.t = "string" THEN isJsonContentType(contentType) ELSE TRUE
             finalBody ==
               IF usedJsonSerializer THEN Stringify(validatedData) ELSE validatedData
         IN  [ok |-> TRUE, err |-> NoError, body |-> finalBody,
              headers |-> IF /\ usedJsonSerializer
                             /\ CanAutoSetContentType(a)
                             /\ ~HeadersHas(finalHeaders, "Content-Type")
                          THEN HeadersSet(finalHeaders, "Content-Type", "application/json")
                          ELSE finalHeaders]

\* typeof body === "object" and none of the native containers
IsPlainStructure(body) == body.t \in {"object", "array"}

\* a bug that sets content-type over the one already there
UnvalidatedBodyOverriding(a, finalHeaders) ==
  IF IsPlainStructure(a.body)
  THEN [body |-> Stringify(a.body),
        headers |-> HeadersSet(finalHeaders, "Content-Type", "application/json")]
  ELSE [body |-> a.body, headers |-> finalHeaders]

\* the body step without a request body schema: [body, headers]
UnvalidatedBody(a, finalHeaders) ==
  IF IsPlainStructure(a.body)
  THEN [body |-> Stringify(a.body),
        headers |-> IF ~HeadersHas(finalHeaders, "Content-Type")
                    THEN HeadersSet(finalHeaders, "Content-Type", "application/json")
                    ELSE finalHeaders]
  ELSE [body |-> a.body, headers |-> finalHeaders]

\* the request body step: [ok, err, headers, body, events]
RequestBody(a, finalHeaders) ==
  IF IsNullish(a.body)
  THEN [ok |-> TRUE, err |-> NoError, headers |-> finalHeaders, body |-> Undef,
        events |-> <<>>]
  ELSE IF a.validate.requestBody
  THEN LET contentType == HeadersGet(finalHeaders, "content-type")
           parsedBody == ParsedBody(a.body, contentType)
           asked == <<Event("adapter", "request.body", parsedBody.v)>>
           validatedData == Parsed(a.bodyOut, parsedBody.v)
           encoded == EncodeValidated(a, validatedData, contentType, finalHeaders)
       IN  IF ~parsedBody.ok
           THEN [ok |-> FALSE, err |-> [kind |-> "InvalidJsonRequestBody", id |-> ""],
                 headers |-> finalHeaders, body |-> Undef, events |-> <<>>]
           ELSE IF a.bodyOut.k = "throw"
           THEN [ok |-> FALSE, err |-> AdapterError(a.bodyOut.e),
                 headers |-> finalHeaders, body |-> Undef, events |-> asked]
           ELSE [ok |-> encoded.ok, err |-> encoded.err, headers |-> encoded.headers,
                 body |-> encoded.body, events |-> asked]
  ELSE LET plain == UnvalidatedBody(a, finalHeaders)
       IN  [ok |-> TRUE, err |-> NoError, headers |-> plain.headers, body |-> plain.body,
            events |-> <<>>]

\* a bug that calls the transport without the caller's remaining options
TransportCallResetting(a, finalHeaders, finalBody) ==
  [input |-> a.input, options |-> [method |-> "GET"], headers |-> finalHeaders,
   body |-> finalBody]

\* what is handed to the transport: fetch(input, {...fetchOptions, headers, body})
TransportCall(a, finalHeaders, finalBody) ==
  [input |-> a.input, options |-> a.options, headers |-> finalHeaders, body |-> finalBody]

\* a bug that invokes the transport before the request body step
FetchTransportFirst(a) ==
  /\ pc = "idle"
  /\ call' = a
  /\ LET h == RequestHeaders(a, config)
         b == RequestBody(a, h.headers)
     IN  IF ~h.ok
         THEN /\ pc' = "rejected"
              /\ err' = h.err
              /\ log' = log \o h.events
              /\ sent' = sent
         ELSE /\ pc' = IF b.ok THEN "awaiting" ELSE "rejected"
              /\ err' = IF b.ok THEN err ELSE b.err
              /\ log' = log \o h.events \o <<Event("transport", "", Undef)>> \o b.events
              /\ sent' = Append(sent, TransportCall(a, h.headers, a.body))
  /\ UNCHANGED <<helper, config, resps, reads, gets>>

\* Prapti.fetch, from the call to its suspension at the transport (or its rejection)
Fetch(a) ==
  /\ pc = "idle"
  /\ call' = a
  /\ LET h == RequestHeaders(a, config)
         b == RequestBody(a, h.headers)
     IN  IF ~h.ok
         THEN /\ pc' = "rejected"
              /\ err' = h.err
              /\ log' = log \o h.events
              /\ sent' = sent
         ELSE IF ~b.ok
         THEN /\ pc' = "rejected"
              /\ err' = b.err
              /\ log' = log \o h.events \o b.events
              /\ sent' = sent
         ELSE /\ pc' = "awaiting"
              /\ err' = err
              /\ log' = log \o h.events \o b.events
                             \o <<Event("transport", "", Undef)>>
              /\ sent' = Append(sent, TransportCall(a, b.headers, b.body))
  /\ UNCHANGED <<helper, config, resps, reads, gets>>

---------------------------------------------------------------------------
(* Response Decorator: ValidatedResponse over the transport's Response. *)

\* new URLSearchParams(text), and the host's parse of a form-encoded body
QueryEntries(text) ==
  CASE text = Lit("a=1&a=2") -> << <<"a", "1">>, <<"a", "2">> >>
    [] text = Lit("a=1") -> << <<"a", "1">> >>
    [] text = Lit("") -> <<>>
    [] OTHER -> << <<StringOf(text), "">> >>

\* Response.prototype.formData parses only a form content type
HostFormDataThrows(r) ==
  ~(HeadersHas(r.headers, "content-type")
    /\ r.headers["content-type"] = "application/x-www-form-urlencoded")

\* rawHeaders(): the response headers as a lower-cased plain object
rawHeaders(r) == ObjectOfMap([k \in DOMAIN r.headers |-> r.headers[k]])

\* a response object the caller can hold
ResponseObject(response, isDecorator, responseSchema, responseHeadersSchema, hdrOut, cloneOf) ==
  [decorator |-> isDecorator, bodyUsed |-> FALSE, validatedHeadersCache |-> Undef,
   responseSchema |-> responseSchema, responseHeadersSchema |-> responseHeadersSchema,
   hdrOut |-> hdrOut, headers |-> response.headers, text |-> response.text,
   status |-> response.status, cloneOf |-> cloneOf]

\* a bug that swallows the adapter's rejection of the response headers
validateResponseHeadersSwallowed(r) ==
  [ok |-> TRUE, err |-> NoError, cache |-> r.validatedHeadersCache,
   events |-> IF r.responseHeadersSchema
              THEN <<Event("adapter", "response.headers", rawHeaders(r))>> ELSE <<>>]

\* validateResponseHeaders: [ok, err, cache, events]
validateResponseHeaders(r) ==
  IF ~r.responseHeadersSchema
  THEN [ok |-> TRUE, err |-> NoError, cache |-> r.validatedHeadersCache, events |-> <<>>]
  ELSE LET headersObj == rawHeaders(r)
           asked == <<Event("adapter", "response.headers", headersObj)>>
       IN  IF r.hdrOut.k = "throw"
           THEN [ok |-> FALSE, err |-> AdapterError(r.hdrOut.e),
                 cache |-> r.validatedHeadersCache, events |-> asked]
           ELSE [ok |-> TRUE, err |-> NoError, cache |-> Parsed(r.hdrOut, headersObj),
                 events |-> asked]

\* a bug that validates the body in the constructor
NewValidatedResponseEager(response, responseSchema, responseHeadersSchema, hdrOut) ==
  LET fresh == ResponseObject(response, TRUE, responseSchema, responseHeadersSchema, hdrOut, 0)
      checked == validateResponseHeaders(fresh)
  IN  [ok |-> checked.ok, err |-> checked.err,
       r |-> [fresh EXCEPT !.validatedHeadersCache = checked.cache],
       events |-> checked.events
                    \o IF responseSchema
                       THEN <<Event("adapter", "response.body", response.text)>> ELSE <<>>]

\* the constructor: [ok, err, r, events]
NewValidatedResponse(response, responseSchema, responseHeadersSchema, hdrOut) ==
  LET fresh == ResponseObject(response, TRUE, responseSchema, responseHeadersSchema, hdrOut, 0)
      checked == validateResponseHeaders(fresh)
  IN  [ok |-> checked.ok, err |-> checked.err,
       r |-> [fresh EXCEPT !.validatedHeadersCache = checked.cache],
       events |-> checked.events]

\* the validatedHeaders getter: [ok, err, val, cache, events]
validatedHeaders(r) ==
  IF r.responseHeadersSchema
  THEN IF r.validatedHeadersCache # Undef
       THEN [ok |-> TRUE, err |-> NoError, val |-> r.validatedHeadersCache,
             cache |-> r.validatedHeadersCache, events |-> <<>>]
       ELSE LET again == validateResponseHeaders(r)
            IN  [ok |-> again.ok, err |-> again.err, val |-> again.cache,
                 cache |-> again.cache, events |-> again.events]
  ELSE [ok |-> TRUE, err |-> NoError, val |-> rawHeaders(r),
        cache |-> r.validatedHeadersCache, events |-> <<>>]

\* Response.prototype.clone on a decorator: the host builds the copy
CloneOf(r, i) ==
  [decorator |-> FALSE, bodyUsed |-> FALSE, validatedHeadersCache |-> Undef,
   responseSchema |-> FALSE, responseHeadersSchema |-> FALSE, hdrOut |-> Unasked,
   headers |-> r.headers, text |-> r.text, status |-> r.status, cloneOf |-> i]

Failed(kind, id, events) ==
  [ok |-> FALSE, val |-> Undef, err |-> [kind |-> kind, id |-> id], events |-> events]
Gave(val, events) == [ok |-> TRUE, val |-> val, err |-> NoError, events |-> events]

\* the schema applied to what a body method decoded
ValidatedBody(r, data, out) ==
  IF r.responseSchema
  THEN IF out.k = "throw"
       THEN Failed("adapter", out.e, <<Event("adapter", "response.body", data)>>)
       ELSE Gave(Parsed(out, data), <<Event("adapter", "response.body", data)>>)
  ELSE Gave(data, <<>>)

\* what the caller of an async method receives for the value it returns: a
\* pending result is awaited and the caller receives what it settles to
Awaited(v) == IF v = Pending THEN [t |-> "settled"] ELSE v

json(r, out) ==
  IF ParseThrows(r.text) THEN Failed("SyntaxError", "", <<>>)
  ELSE LET validated == ValidatedBody(r, Parse(r.text), out)
       IN  IF validated.ok THEN Gave(Awaited(validated.val), validated.events)
           ELSE validated

formData(r, out, mode) ==
  IF HostFormDataThrows(r) THEN Failed("TypeError", "not form data", <<>>)
  ELSE LET container == FormDataOf(QueryEntries(r.text))
           validated == ValidatedBody(r, formDataToObject(container), out)
       IN  IF ~r.responseSchema THEN Gave(container, <<>>)
           ELSE IF ~validated.ok THEN validated
           ELSE IF IsTruthyObject(validated.val)
           THEN IF objectToFormDataThrows(validated.val, mode)
                THEN Failed("Error", "FormData value", validated.events)
                ELSE Gave(objectToFormData(validated.val, mode), validated.events)
           ELSE Failed("Error", "not an object", validated.events)

urlSearchParams(r, out) ==
  LET params == SearchParamsOf(QueryEntries(r.text))
      validated == ValidatedBody(r, urlSearchParamsToObject(params), out)
  IN  IF ~r.responseSchema THEN Gave(params, <<>>)
      ELSE IF ~validated.ok THEN validated
      ELSE IF IsTruthyObject(validated.val)
      THEN Gave(objectToUrlSearchParams(validated.val), validated.events)
      ELSE Failed("Error", "not an object", validated.events)

\* this.serializer.formDataValueMode ?? "native"
formDataValueMode(cfg) ==
  IF cfg.formDataValueMode = "unset" THEN "native" ELSE cfg.formDataValueMode

BodyMethods == {"json", "text", "blob", "arrayBuffer", "formData", "urlSearchParams"}
\* a plain Response has no urlSearchParams method
MethodsOf(r) == IF r.decorator THEN BodyMethods ELSE BodyMethods \ {"urlSearchParams"}

\* a body-reading call on an unread body: [ok, val, err, events]
BodyRead(r, method, out, mode) ==
  CASE method = "json" -> json(r, out)
    [] method = "text" -> Gave(r.text, <<>>)
    [] method = "blob" -> Gave([t |-> "Blob", of |-> r.text], <<>>)
    [] method = "arrayBuffer" -> Gave([t |-> "ArrayBuffer", of |-> r.text], <<>>)
    [] method = "formData" -> formData(r, out, mode)
    [] OTHER -> urlSearchParams(r, out)

---------------------------------------------------------------------------
(* The rest of Prapti.fetch, and what the caller does with the response. *)

\* the transport resolves: fetch continues and builds the decorator
TransportResolves(response, hdrOut) ==
  /\ pc = "awaiting"
  /\ hdrOut.k = "unasked" <=> ~call.validate.responseHeaders
  /\ LET made == NewValidatedResponse(response, call.validate.responseBody,
                                      call.validate.responseHeaders, hdrOut)
     IN  /\ log' = log \o made.events
         /\ IF made.ok
            THEN pc' = "resolved" /\ resps' = <<made.r>> /\ err' = err
            ELSE pc' = "rejected" /\ resps' = resps /\ err' = made.err
  /\ UNCHANGED <<helper, config, call, sent, reads, gets>>

\* a bug that replaces the transport's error by one of the pipeline's own
TransportRejectsWrapped(e) ==
  /\ pc = "awaiting"
  /\ pc' = "rejected"
  /\ err' = [kind |-> "Error", id |-> "request failed"]
  /\ log' = Append(log, Event("transport failed", "", Lit(e)))
  /\ UNCHANGED <<helper, config, call, sent, resps, reads, gets>>

\* the transport fails: the await throws out of fetch
TransportRejects(e) ==
  /\ pc = "awaiting"
  /\ pc' = "rejected"
  /\ err' = [kind |-> "transport", id |-> e]
  /\ log' = Append(log, Event("transport failed", "", Lit(e)))
  /\ UNCHANGED <<helper, config, call, sent, resps, reads, gets>>

\* whether a body-reading call gets as far as the adapter
AsksAdapter(r, method) ==
  /\ r.decorator /\ r.responseSchema /\ ~r.bodyUsed
  /\ \/ method = "json" /\ ~ParseThrows(r.text)
     \/ method = "formData" /\ ~HostFormDataThrows(r)
     \/ method = "urlSearchParams"

\* a bug that leaves the body unread when the body-reading call fails
ReadKeepingBodyOnFailure(i, method, out) ==
  /\ pc = "resolved"
  /\ i \in 1..Len(resps)
  /\ Len(reads) < MaxReads
  /\ method \in MethodsOf(resps[i])
  /\ out.k = "unasked" <=> ~AsksAdapter(resps[i], method)
  /\ LET r == resps[i]
         got == IF r.bodyUsed THEN Failed("TypeError", "body used", <<>>)
                ELSE BodyRead(r, method, out, formDataValueMode(config))
     IN  /\ reads' = Append(reads, [inst |-> i, method |-> method, out |-> out, ok |-> got.ok,
                                    val |-> got.val, err |-> got.err])
         /\ log' = log \o got.events
         /\ resps' = [resps EXCEPT ![i].bodyUsed = r.bodyUsed \/ got.ok]
  /\ UNCHANGED <<helper, config, pc, call, err, sent, gets>>

\* a body-reading call on response object i
Read(i, method, out) ==
  /\ pc = "resolved"
  /\ i \in 1..Len(resps)
  /\ Len(reads) < MaxReads
  /\ method \in MethodsOf(resps[i])
  /\ out.k = "unasked" <=> ~AsksAdapter(resps[i], method)
  /\ LET r == resps[i]
         got == IF r.bodyUsed THEN Failed("TypeError", "body used", <<>>)
                ELSE BodyRead(r, method, out, formDataValueMode(config))
     IN  /\ reads' = Append(reads, [inst |-> i, method |-> method, out |-> out, ok |-> got.ok,
                                    val |-> got.val, err |-> got.err])
         /\ log' = log \o got.events
  /\ resps' = [resps EXCEPT ![i].bodyUsed = TRUE]
  /\ UNCHANGED <<helper, config, pc, call, err, sent, gets>>

\* clone() on response object i, its body not yet read
Clone(i) ==
  /\ pc = "resolved"
  /\ i \in 1..Len(resps)
  /\ Len(resps) < MaxResponses
  /\ ~resps[i].bodyUsed
  /\ resps' = Append(resps, CloneOf(resps[i], i))
  /\ UNCHANGED <<helper, config, pc, call, err, sent, log, reads, gets>>

\* an access to validatedHeaders on decorator i
GetValidatedHeaders(i) ==
  /\ pc = "resolved"
  /\ i \in 1..Len(resps)
  /\ resps[i].decorator
  /\ Len(gets) < MaxGets
  /\ LET got == validatedHeaders(resps[i])
     IN  /\ gets' = Append(gets, [inst |-> i, ok |-> got.ok, val |-> got.val, err |-> got.err])
         /\ log' = log \o got.events
         /\ resps' = [resps EXCEPT ![i].validatedHeadersCache = got.cache]
  /\ UNCHANGED <<helper, config, pc, call, err, sent, reads>>

---------------------------------------------------------------------------
(* The transport called directly: the request the host builds from         *)
(* fetch(input, init), and the body methods of the host's Response.        *)

\* header values by name, each name with the list of values appended to it
ValuesOf(m) == [n \in DOMAIN m |-> <<m[n]>>]

\* new Headers(init): every entry is appended, a repeated name keeps all its
\* values in order, and every value is converted with String
RECURSIVE FillHeaders(_, _)
FillHeaders(e, list) ==
  IF e = <<>> THEN list
  ELSE LET name == Lower(Head(e)[1])
           value == StringOf(Head(e)[2])
       IN  FillHeaders(Tail(e),
             IF name \in DOMAIN list THEN [list EXCEPT ![name] = Append(@, value)]
             ELSE Put(list, name, <<value>>))

\* a Headers instance holding the map m, as prapti hands it to the transport
HeadersInstance(m) == [shape |-> "Headers", e |-> EntriesOfMap(m)]

\* the request of fetch(input, init): init.headers, when given, replaces a
\* Request target's own headers; otherwise the target's own headers are sent
TransportRequest(input, options, headers, body) ==
  [url |-> input.kind, options |-> options,
   headers |-> IF headers.shape = "none" THEN ValuesOf(input.own)
               ELSE FillHeaders(headers.e, EmptyMap),
   body |-> IF IsNullish(body) THEN Undef ELSE body]

\* a body method of the host's Response on response r: [ok, val, err]
HostBodyRead(r, method, bodyUsed) ==
  CASE bodyUsed -> [ok |-> FALSE, val |-> Undef, err |-> [kind |-> "TypeError", id |-> "body used"]]
    [] ~bodyUsed /\ method = "json" ->
         IF ParseThrows(r.text)
         THEN [ok |-> FALSE, val |-> Undef, err |-> [kind |-> "SyntaxError", id |-> ""]]
         ELSE [ok |-> TRUE, val |-> Parse(r.text), err |-> NoError]
    [] ~bodyUsed /\ method = "formData" ->
         IF HostFormDataThrows(r)
         THEN [ok |-> FALSE, val |-> Undef, err |-> [kind |-> "TypeError", id |-> "not form data"]]
         ELSE [ok |-> TRUE, val |-> FormDataOf(QueryEntries(r.text)), err |-> NoError]
    [] ~bodyUsed /\ method = "text" -> [ok |-> TRUE, val |-> r.text, err |-> NoError]
    [] ~bodyUsed /\ method = "blob" ->
         [ok |-> TRUE, val |-> [t |-> "Blob", of |-> r.text], err |-> NoError]
    [] OTHER -> [ok |-> TRUE, val |-> [t |-> "ArrayBuffer", of |-> r.text], err |-> NoError]

---------------------------------------------------------------------------
(* The inputs: calls, adapter outcomes, transport responses. *)

NoValidation ==
  [requestBody |-> FALSE, requestHeaders |-> FALSE, responseBody |-> FALSE,
   responseHeaders |-> FALSE]

Target(kind, own) == [kind |-> kind, own |-> own]
StringTarget == Target("string", EmptyMap)

NoCall ==
  [input |-> StringTarget, options |-> [method |-> "GET"], headers |-> NoHeaders,
   body |-> Undef, validate |-> NoValidation, hdrOut |-> Unasked, bodyOut |-> Unasked]

\* the lists of at most n (name, value) pairs
RECURSIVE PairLists(_, _)
PairLists(pairs, n) ==
  IF n = 0 THEN {<<>>}
  ELSE LET shorter == PairLists(pairs, n - 1)
       IN  shorter \cup {Append(l, p) : l \in shorter, p \in pairs}

\* a mapping's keys are distinct; a Headers collection's also ignoring case
DistinctKeys(l) == \A i, j \in 1..Len(l) : i # j => l[i][1] # l[j][1]
DistinctNames(l) == \A i, j \in 1..Len(l) : i # j => Lower(l[i][1]) # Lower(l[j][1])

HeaderInputs(shape, lists) == {[shape |-> shape, e |-> l] : l \in lists}

\* request side
RequestHeaderPairs ==
  ({"x-a"} \X {Lit("1"), Null})
    \cup ({"X-B"} \X {Lit("1")})
    \cup ({"Content-Type"} \X {Lit("application/json"), Lit("Application/Vnd.Api+JSON; charset=utf-8"),
                                Lit("text/plain"), Null})

RequestHeaderInputs ==
  HeaderInputs("object", {l \in PairLists(RequestHeaderPairs, MaxHeaders) : DistinctNames(l)})

RequestBodies ==
  { Undef, JsonText(Obj(<< <<"a", Num(1)>> >>)), Lit("oops"), Obj(<< <<"a", Num(1)>> >>),
    Arr(<< Num(1) >>), FormDataOf(<< <<"a", "1">>, <<"a", "2">> >>),
    SearchParamsOf(<< <<"a", "1">> >>), Binary("Blob"), Binary("ReadableStream") }

RequestHeaderOutcomes ==
  { Throw("E-request-headers"), Same,
    Return(Obj(<< <<"x-a", Lit("2")>> >>)),
    Return(Obj(<< <<"content-type", Null>>, <<"x-a", Num(7)>> >>)),
    Return(Obj(<< <<"X-B", Undef>>, <<"content-type", Lit("text/plain")>> >>)),
    Return(Lit("s")) }

RequestBodyOutcomes ==
  { Throw("E-request-body"), Same, Return(Lit("s")), Return(Obj(<< <<"b", Num(2)>> >>)),
    Return(Num(7)), Return(Null) }

\* the adapter has an outcome exactly for the slots that hold a schema
OutcomesFor(present, outcomes) == IF present THEN outcomes ELSE {Unasked}

RequestCall(h, b, vh, vb, ho, bo) ==
  [input |-> StringTarget, options |-> [method |-> "POST"], headers |-> h, body |-> b,
   validate |-> [NoValidation EXCEPT !.requestHeaders = vh, !.requestBody = vb],
   hdrOut |-> ho, bodyOut |-> bo]

\* response side
ResponseCall(vb, vh) ==
  [NoCall EXCEPT !.validate = [NoValidation EXCEPT !.responseBody = vb,
                                                    !.responseHeaders = vh]]

Response(status, headers, text) == [status |-> status, headers |-> headers, text |-> text]

Responses ==
  { Response(200, Put(Put(EmptyMap, "content-type", "application/json"), "x-a", "1"),
             JsonText(Obj(<< <<"a", Num(1)>> >>))),
    Response(200, Put(EmptyMap, "content-type", "application/x-www-form-urlencoded"),
             Lit("a=1&a=2")) }

ResponseHeaderOutcomes ==
  { Throw("E-response-headers"), Same, Return(Obj(<< <<"x-a", Num(7)>> >>)),
    Return(Undef), Return(Null) }

ResponseBodyOutcomes ==
  { Throw("E-response-body"), Same, Return(Obj(<< <<"a", Lit("9")>> >>)),
    Return(Arr(<< Lit("s") >>)), Return(Lit("s")), Return(Null) }

TransportErrors == {"TypeError: Failed to fetch", "AbortError"}

Configs ==
  [headerValidationMode : {"preserve", "strict"}, formDataValueMode : {"native", "strict"}]

\* calls without any schema: every target form, header shape and native body
Targets ==
  { Target("string", EmptyMap), Target("URL", EmptyMap), Target("Request", EmptyMap),
    Target("Request", Put(EmptyMap, "authorization", "Bearer t")) }

PassthroughHeaderPairs == {"x-a", "X-B"} \X {Lit("1"), Lit("2")}

PassthroughHeaderInputs ==
  {NoHeaders}
    \cup HeaderInputs("object", {l \in PairLists(PassthroughHeaderPairs, MaxHeaders) : DistinctNames(l)})
    \cup HeaderInputs("pairs", PairLists(PassthroughHeaderPairs, MaxHeaders))
    \cup HeaderInputs("Headers", {l \in PairLists(PassthroughHeaderPairs, MaxHeaders) : DistinctNames(l)})

PassthroughBodies ==
  { Undef, Lit("plain text"), JsonText(Obj(<< <<"a", Num(1)>> >>)),
    FormDataOf(<< <<"a", "1">> >>), SearchParamsOf(<< <<"a", "1">> >>), Binary("Blob") }

PassthroughCall(t, h, b) == [NoCall EXCEPT !.input = t, !.headers = h, !.body = b]

---------------------------------------------------------------------------
(* Specifications. *)

\* no helper function is under study
NoHelper == [fn |-> "none"]

Idle ==
  /\ pc = "idle" /\ call = NoCall /\ err = NoError
  /\ sent = <<>> /\ log = <<>> /\ resps = <<>> /\ reads = <<>> /\ gets = <<>>
  /\ helper = NoHelper

\* the request side: calls with request validation, up to the transport
InitRequest == Idle /\ config \in {c \in Configs : c.formDataValueMode = "native"}

FetchRequest ==
  /\ pc = "idle"
  /\ \E h \in RequestHeaderInputs, b \in RequestBodies, vh \in BOOLEAN, vb \in BOOLEAN :
       \E ho \in OutcomesFor(vh, RequestHeaderOutcomes),
          bo \in OutcomesFor(vb, RequestBodyOutcomes) :
         Fetch(RequestCall(h, b, vh, vb, ho, bo))
Rejects == pc = "awaiting" /\ \E e \in TransportErrors : TransportRejects(e)

NextRequest == FetchRequest \/ Rejects

SpecRequest == InitRequest /\ [][NextRequest]_vars

\* the response side: calls with response validation, and the caller's reads
InitResponse ==
  Idle /\ config = [headerValidationMode |-> "preserve", formDataValueMode |-> "native"]

FetchResponse ==
  /\ pc = "idle"
  /\ \E vb \in BOOLEAN, vh \in BOOLEAN : Fetch(ResponseCall(vb, vh))
Resolves ==
  /\ pc = "awaiting"
  /\ \E r \in Responses :
       \E ho \in OutcomesFor(call.validate.responseHeaders, ResponseHeaderOutcomes) :
         TransportResolves(r, ho)
Reads ==
  \E i \in 1..Len(resps), m \in BodyMethods :
    \E out \in OutcomesFor(AsksAdapter(resps[i], m), ResponseBodyOutcomes) : Read(i, m, out)
Clones == \E i \in 1..Len(resps) : Clone(i)
Gets == \E i \in 1..Len(resps) : GetValidatedHeaders(i)

NextResponse == FetchResponse \/ Resolves \/ Rejects \/ Reads \/ Clones \/ Gets

SpecResponse == InitResponse /\ [][NextResponse]_vars

\* calls without validation: what reaches the transport and the caller
FetchPassthrough ==
  /\ pc = "idle"
  /\ \E t \in Targets, h \in PassthroughHeaderInputs, b \in PassthroughBodies :
       Fetch(PassthroughCall(t, h, b))

NextPassthrough == FetchPassthrough \/ Resolves \/ Rejects \/ Reads

SpecPassthrough == InitResponse /\ [][NextPassthrough]_vars

---------------------------------------------------------------------------
(* Claims about the request side. *)

Asked(slot) == \E i \in 1..Len(log) : log[i].ev = "adapter" /\ log[i].slot = slot
TransportInvoked == sent # <<>>

\* what the request header schema produced, when it produced a mapping
SchemaHeaders ==
  LET v == Parsed(call.hdrOut, ObjectOfMap(headersToObject(call.headers)))
  IN  IF IsTruthyObject(v) THEN Entries(v) ELSE <<>>
EmittedNames == {Lower(SchemaHeaders[i][1]) : i \in 1..Len(SchemaHeaders)}
EmittedDefined ==
  {Lower(SchemaHeaders[i][1]) : i \in {j \in 1..Len(SchemaHeaders) : ~IsNullish(SchemaHeaders[j][2])}}
EmittedNullish ==
  {Lower(SchemaHeaders[i][1]) : i \in {j \in 1..Len(SchemaHeaders) : IsNullish(SchemaHeaders[j][2])}}
EmittedValue(name) ==
  StringOf(SchemaHeaders[CHOOSE i \in 1..Len(SchemaHeaders) : Lower(SchemaHeaders[i][1]) = name][2])

\* C1: in both header modes, when the adapter throws on the request headers or on
\* the request body, the call rejects with the adapter's error, unmodified, and
\* the transport has not been invoked.
C1_ValidationFailurePreventsTransport ==
  /\ (Asked("request.headers") /\ call.hdrOut.k = "throw")
       => (pc = "rejected" /\ err = [kind |-> "adapter", id |-> call.hdrOut.e]
           /\ ~TransportInvoked)
  /\ (Asked("request.body") /\ call.bodyOut.k = "throw")
       => (pc = "rejected" /\ err = [kind |-> "adapter", id |-> call.bodyOut.e]
           /\ ~TransportInvoked)

\* a strict-mode call whose headers passed and whose body the adapter rejected
C1_Witness ==
  /\ config.headerValidationMode = "strict"
  /\ Asked("request.headers") /\ call.hdrOut.k # "throw"
  /\ Asked("request.body") /\ call.bodyOut.k = "throw"
  /\ pc = "rejected"

\* whether an earlier body-reading call was made on the same response object
ReadBefore(i) == \E j \in 1..(i - 1) : reads[j].inst = reads[i].inst

\* C2: a call without any schema hands the transport the request a direct call
\* with the same arguments would make (target, options, headers, body), fails
\* only as the transport fails, and the body methods of the response give what
\* the transport's own response gives.
C2_PassthroughParity ==
  /\ sent # <<>> =>
       TransportRequest(sent[1].input, sent[1].options, HeadersInstance(sent[1].headers),
                        sent[1].body)
         = TransportRequest(call.input, call.options, call.headers, call.body)
  /\ pc = "rejected" => (sent # <<>> /\ err.kind = "transport")
  /\ \A i \in 1..Len(reads) :
       reads[i].method # "urlSearchParams" =>
         LET host == HostBodyRead(resps[reads[i].inst], reads[i].method, ReadBefore(i))
         IN  /\ reads[i].ok = host.ok
             /\ reads[i].val = host.val
             /\ reads[i].err = host.err

\* the headers after the header step, and the content-type among them
HeaderStepHeaders == RequestHeaders(call, config).headers
OutgoingContentType == HeadersGet(HeaderStepHeaders, "content-type")
JsonOrUnset == isJsonContentType(OutgoingContentType) \/ OutgoingContentType.null

\* the value the request body schema produced
ValidatedRequestBody == Parsed(call.bodyOut, ParsedBody(call.body, OutgoingContentType).v)

\* C11: for a form-data or url-search-params body under a request body schema,
\* when the validated result is not a key-to-value mapping the call fails and
\* the transport is not invoked.
C11_NonMappingContainerFails ==
  (/\ call.body.t \in {"FormData", "URLSearchParams"}
   /\ Asked("request.body")
   /\ call.bodyOut.k = "return"
   /\ call.bodyOut.v.t # "object")
    => (pc = "rejected" /\ ~TransportInvoked)

\* C12: for an object or array body, or a string body decoded as JSON, under a
\* request body schema, the body handed to the transport is the serializer
\* encoding of the value the adapter returned (a validated string being
\* encoded when the content-type is JSON or unset).
C12_ValidatedBodyEncoded ==
  (/\ pc = "awaiting" /\ call.validate.requestBody
   /\ \/ IsPlainStructure(call.body)
      \/ call.body.t = "string" /\ ~ParseThrows(call.body) /\ JsonOrUnset
   /\ ValidatedRequestBody.t = "string" => JsonOrUnset)
    => sent[1].body = Stringify(ValidatedRequestBody)

\* C13: an object or array body without a request body schema is sent as its
\* serializer encoding; content-type application/json is added exactly when
\* the outgoing headers hold no content-type, and a content-type already there
\* reaches the transport unchanged.
C13_PlainBodyAutoEncoded ==
  (pc = "awaiting" /\ IsPlainStructure(call.body) /\ ~call.validate.requestBody) =>
    /\ sent[1].body = Stringify(call.body)
    /\ sent[1].headers =
         IF OutgoingContentType.null
         THEN Put(HeaderStepHeaders, "content-type", "application/json")
         ELSE HeaderStepHeaders

\* an array body sent under the caller's own vendor content-type
C13_Witness ==
  /\ pc = "awaiting" /\ call.body.t = "array" /\ ~call.validate.requestBody
  /\ ~call.validate.requestHeaders
  /\ sent[1].body = JsonText(call.body)
  /\ "content-type" \in DOMAIN sent[1].headers
  /\ sent[1].headers["content-type"] = "Application/Vnd.Api+JSON; charset=utf-8"

\* C14: a string body under a request body schema whose outgoing content-type
\* is JSON (application/json or application/*+json, in any case) and which the
\* serializer cannot decode makes the call fail with the invalid-JSON-request-
\* body error; the adapter is not asked about the body and the transport is
\* not invoked.
C14_UndecodableJsonBodyFails ==
  (/\ pc # "idle" /\ call.validate.requestBody
   /\ RequestHeaders(call, config).ok
   /\ call.body.t = "string" /\ ParseThrows(call.body)
   /\ isJsonContentType(OutgoingContentType))
    => (/\ pc = "rejected" /\ err.kind = "InvalidJsonRequestBody"
        /\ ~Asked("request.body") /\ ~TransportInvoked)

\* an undecodable body under a vendor JSON content-type written in mixed case
C14_Witness ==
  /\ pc = "rejected" /\ err.kind = "InvalidJsonRequestBody"
  /\ call.validate.requestBody /\ call.body = Lit("oops")
  /\ ~OutgoingContentType.null
  /\ OutgoingContentType.s = "Application/Vnd.Api+JSON; charset=utf-8"

\* C15: for a string body under a request body schema whose validated value is
\* a string, the body sent is the serializer encoding of that string when the
\* outgoing content-type is JSON or unset; under any other content-type the
\* string is sent as it is and the headers are those of the header step.
C15_ValidatedStringEncoding ==
  (/\ pc = "awaiting" /\ call.validate.requestBody
   /\ call.body.t = "string" /\ ValidatedRequestBody.t = "string")
    => IF JsonOrUnset
       THEN sent[1].body = Stringify(ValidatedRequestBody)
       ELSE sent[1].body = ValidatedRequestBody /\ sent[1].headers = HeaderStepHeaders

\* C20: for a binary body (Blob, ArrayBuffer, typed view, stream), with or
\* without a request body schema, the adapter is not asked about the body, and
\* the transport receives that same body under the headers of the header step.
C20_BinaryBodyUntouched ==
  (pc # "idle" /\ call.body.t \in BinaryKinds) =>
    /\ ~Asked("request.body")
    /\ pc = "awaiting" => (sent[1].body = call.body /\ sent[1].headers = HeaderStepHeaders)

\* C3: with a request header schema, strict mode hands the transport exactly the
\* names the schema emitted with a non-null value; preserve mode hands it the
\* original headers overlaid with the schema-produced values.
C3_HeaderModes ==
  (pc = "awaiting" /\ call.validate.requestHeaders) =>
    LET out == sent[1].headers
        original == headersToObject(call.headers)
    IN  IF config.headerValidationMode = "strict"
        THEN DOMAIN out = EmittedDefined
        ELSE /\ DOMAIN out = ((DOMAIN original) \cup EmittedDefined) \ EmittedNullish
             /\ \A n \in DOMAIN out :
                  out[n] = IF n \in EmittedDefined THEN EmittedValue(n) ELSE original[n]

\* C4: with a request header schema, whatever the mode, the body and the body
\* schema, a header name the schema produced null or undefined for is absent
\* from the headers handed to the transport.
C4_NullishHeaderAbsent ==
  (pc = "awaiting" /\ call.validate.requestHeaders) =>
    \A n \in EmittedNullish : n \notin DOMAIN sent[1].headers

---------------------------------------------------------------------------
(* Calls over every target form, option set and header shape, with and     *)
(* without a request header schema.                                        *)

ShapeHeaderPairs == {"x-a", "X-A", "X-B"} \X {Lit("1"), Lit("2")}

HeaderShapes == {"object", "pairs", "Headers"}

\* header sets without a repeated name, in each shape
ShapeHeaderInputs ==
  UNION {HeaderInputs(shape, {l \in PairLists(ShapeHeaderPairs, MaxHeaders) : DistinctNames(l)}) :
           shape \in HeaderShapes}

\* the options of the call besides body, headers and validate
OptionSets ==
  { [method |-> "GET"],
    [method |-> "PUT", mode |-> "cors", credentials |-> "include", cache |-> "no-store",
     redirect |-> "manual", referrer |-> "about:client", referrerPolicy |-> "no-referrer",
     keepalive |-> TRUE, signal |-> "AbortSignal-1"] }

ShapeHeaderOutcomes ==
  { Throw("E-request-headers"), Same, Return(Obj(<< <<"x-a", Lit("2")>> >>)) }

ShapesCall(t, o, h, vh, ho) ==
  [NoCall EXCEPT !.input = t, !.options = o, !.headers = h,
                 !.validate = [NoValidation EXCEPT !.requestHeaders = vh], !.hdrOut = ho]

FetchShapes ==
  /\ pc = "idle"
  /\ \E t \in Targets, o \in OptionSets, h \in ShapeHeaderInputs, vh \in BOOLEAN :
       \E ho \in OutcomesFor(vh, ShapeHeaderOutcomes) : Fetch(ShapesCall(t, o, h, vh, ho))

NextShapes == FetchShapes \/ Rejects

SpecShapes == InitRequest /\ [][NextShapes]_vars

\* the header set a header input stands for: lower-cased name to value
LogicalSet(headers) ==
  [n \in {Lower(headers.e[i][1]) : i \in 1..Len(headers.e)} |->
     StringOf(headers.e[CHOOSE i \in 1..Len(headers.e) : Lower(headers.e[i][1]) = n][2])]

\* what the adapter was given for the request headers
GivenToHeaderSchema ==
  log[CHOOSE i \in 1..Len(log) : log[i].ev = "adapter" /\ log[i].slot = "request.headers"].data

\* C17: a header set given as a mapping, as a pair-sequence or as a Headers
\* collection yields the same lower-cased map: the request header schema is
\* given that map, and without a schema (or with one that returns its input,
\* in preserve mode) the transport is handed that map.
C17_HeaderShapesAgree ==
  (pc # "idle" /\ call.headers.shape \in HeaderShapes /\ DistinctNames(call.headers.e)
   /\ \A i \in 1..Len(call.headers.e) : ~IsNullish(call.headers.e[i][2])) =>
    /\ call.validate.requestHeaders =>
         GivenToHeaderSchema = ObjectOfMap(LogicalSet(call.headers))
    /\ (/\ pc = "awaiting" /\ ~IsPlainStructure(call.body)
        /\ \/ ~call.validate.requestHeaders
           \/ call.hdrOut.k = "same" /\ config.headerValidationMode = "preserve")
         => sent[1].headers = LogicalSet(call.headers)

\* a pair-sequence with upper-case names, validated and sent lower-cased
C17_Witness ==
  /\ pc = "awaiting" /\ call.headers.shape = "pairs" /\ call.validate.requestHeaders
  /\ call.headers.e = << <<"X-A", Lit("1")>>, <<"X-B", Lit("2")>> >>
  /\ call.hdrOut.k = "same"
  /\ DOMAIN sent[1].headers = {"x-a", "x-b"}

\* C19: with or without validation, the target and the options other than
\* body and headers reach the transport as the caller gave them, and the
\* transport's arguments hold no validate block.
C19_OptionsReachTransport ==
  sent # <<>> =>
    /\ sent[1].input = call.input
    /\ sent[1].options = call.options
    /\ DOMAIN sent[1] = {"input", "options", "headers", "body"}
    /\ "validate" \notin DOMAIN sent[1].options

\* a validated call on a Request target with an abort signal and other options
C19_Witness ==
  /\ pc = "awaiting" /\ call.validate.requestHeaders
  /\ call.input.kind = "Request"
  /\ "signal" \in DOMAIN call.options
  /\ sent[1].options.signal = "AbortSignal-1" /\ sent[1].options.keepalive

---------------------------------------------------------------------------
(* The default content-type predicate on its own. *)

\* the type and the slash
MediaTypePrefixes ==
  { <<"a", "p", "p", "l", "i", "c", "a", "t", "i", "o", "n", "/">>,
    <<"A", "p", "p", "l", "i", "c", "a", "t", "i", "o", "n", "/">>,
    <<"A", "P", "P", "L", "I", "C", "A", "T", "I", "O", "N", "/">>,
    <<"t", "e", "x", "t", "/">> }

\* subtypes: JSON, vendor JSON, and near misses
MediaSubtypes ==
  { <<"j", "s", "o", "n">>,
    <<"J", "S", "O", "N">>,
    <<"j", "s", "o", "n", "p">>,
    <<"v", "n", "d", ".", "a", "p", "i", "+", "j", "s", "o", "n">>,
    <<"l", "d", "+", "J", "S", "O", "N">>,
    <<"+", "j", "s", "o", "n">>,
    <<"x", "m", "l">>,
    <<"j", "s", "o", "n", "+", "x", "m", "l">>,
    <<"x", "+", "j", "s", "o", "n", "p">> }

\* the parameters after the media type
ParameterSuffixes ==
  { <<>>,
    <<";", "c", "h", "a", "r", "s", "e", "t", "=", "u", "t", "f", "-", "8">>,
    <<";", " ", "c", "h", "a", "r", "s", "e", "t", "=", "U", "T", "F", "-", "8", ";", " ", "q", "=", "1">> }

\* the runs of at most n whitespace characters
RECURSIVE Paddings(_)
Paddings(n) ==
  IF n = 0 THEN {<<>>}
  ELSE Paddings(n - 1) \cup {Append(l, w) : l \in Paddings(n - 1), w \in WhiteSpace}

\* null, the empty string, and padded media types with parameters
ContentTypes ==
  {[null |-> TRUE, cs |-> <<>>], [null |-> FALSE, cs |-> <<>>]}
    \cup {[null |-> FALSE, cs |-> l \o t \o sub \o r \o p] :
            l \in Paddings(MaxPadding), t \in MediaTypePrefixes, sub \in MediaSubtypes,
            r \in Paddings(MaxPadding), p \in ParameterSuffixes}

InitContentType ==
  /\ pc = "idle" /\ call = NoCall /\ err = NoError
  /\ sent = <<>> /\ log = <<>> /\ resps = <<>> /\ reads = <<>> /\ gets = <<>>
  /\ config = [headerValidationMode |-> "preserve", formDataValueMode |-> "native"]
  /\ \E ct \in ContentTypes :
       helper = [fn |-> "isJsonContentType", input |-> ct, done |-> FALSE, result |-> FALSE]

\* defaultSerializer.isJsonContentType(contentType)
Classifies ==
  /\ helper.fn = "isJsonContentType" /\ ~helper.done
  /\ helper' = [helper EXCEPT !.done = TRUE, !.result = defaultIsJsonContentType(helper.input)]
  /\ UNCHANGED <<config, pc, call, err, sent, log, resps, reads, gets>>

NextContentType == Classifies

SpecContentType == InitContentType /\ [][NextContentType]_vars

\* two character sequences that differ at most in the case of their letters
SameIgnoringCase(a, b) ==
  /\ Len(a) = Len(b)
  /\ \A i \in 1..Len(a) :
       \/ a[i] = b[i]
       \/ \E k \in 1..Len(UpperLetters) : {a[i], b[i]} = {UpperLetters[k], LowerLetters[k]}

\* the media type of a content-type: what precedes the parameters, without
\* the whitespace around it
MediaTypeOf(cs) ==
  LET cut == {k \in 0..Len(cs) : \A j \in 1..k : cs[j] # ";"}
      n == CHOOSE k \in cut : \A m \in cut : m <= k
      inked == {i \in 1..n : cs[i] \notin WhiteSpace}
  IN  IF inked = {} THEN <<>>
      ELSE SubSeq(cs, CHOOSE i \in inked : \A m \in inked : i <= m,
                      CHOOSE i \in inked : \A m \in inked : m <= i)

\* application/<anything>+json
IsVendorJson(m) ==
  \E k \in 0..Len(m) :
    /\ Len(m) = 12 + k + 5
    /\ SameIgnoringCase(SubSeq(m, 1, 12), ApplicationSlash)
    /\ SameIgnoringCase(SubSeq(m, 12 + k + 1, Len(m)), PlusJson)

\* C18: the default content-type predicate is true exactly when the media
\* type, without its parameters and surrounding whitespace and in any case,
\* is application/json or application/*+json; it is false for
\* application/jsonp, for any other type and for a missing content-type.
C18_JsonContentTypePredicate ==
  (helper.fn = "isJsonContentType" /\ helper.done) =>
    helper.result =
      (/\ ~helper.input.null
       /\ \/ SameIgnoringCase(MediaTypeOf(helper.input.cs), ApplicationJson)
          \/ IsVendorJson(MediaTypeOf(helper.input.cs)))

\* a padded, upper-case vendor JSON type with parameters, classified as JSON
C18_Witness ==
  /\ helper.fn = "isJsonContentType" /\ helper.done /\ helper.result
  /\ Head(helper.input.cs) \in WhiteSpace
  /\ \E i, j, k \in 1..Len(helper.input.cs) :
       /\ i < j /\ j < k
       /\ helper.input.cs[i] = "+" /\ helper.input.cs[j] = "N" /\ helper.input.cs[k] = ";"

---------------------------------------------------------------------------
(* The body helpers on their own: a container is flattened, handed to a     *)
(* schema that returns it unchanged, and rebuilt.                          *)

ContainerEntries == PairLists({"a", "b", "constructor"} \X {"1", "2"}, MaxEntries)

Containers ==
  {FormDataOf(e) : e \in ContainerEntries} \cup {SearchParamsOf(e) : e \in ContainerEntries}

InitBodyHelpers ==
  /\ pc = "idle" /\ call = NoCall /\ err = NoError
  /\ sent = <<>> /\ log = <<>> /\ resps = <<>> /\ reads = <<>> /\ gets = <<>>
  /\ config = [headerValidationMode |-> "preserve", formDataValueMode |-> "native"]
  /\ \E c \in Containers :
       helper = [fn |-> "roundTrip", input |-> c, step |-> 0, object |-> Undef, rebuilt |-> Undef]

\* formDataToObject / urlSearchParamsToObject on the container
Flattens ==
  /\ helper.fn = "roundTrip" /\ helper.step = 0
  /\ helper' = [helper EXCEPT !.step = 1,
                              !.object = IF helper.input.t = "FormData"
                                         THEN formDataToObject(helper.input)
                                         ELSE urlSearchParamsToObject(helper.input)]
  /\ UNCHANGED <<config, pc, call, err, sent, log, resps, reads, gets>>

\* objectToFormData / objectToUrlSearchParams on what the schema returned
Rebuilds ==
  /\ helper.fn = "roundTrip" /\ helper.step = 1
  /\ helper' = [helper EXCEPT !.step = 2,
                              !.rebuilt = IF helper.input.t = "FormData"
                                          THEN objectToFormData(helper.object, "native")
                                          ELSE objectToUrlSearchParams(helper.object)]
  /\ UNCHANGED <<config, pc, call, err, sent, log, resps, reads, gets>>

NextBodyHelpers == Flattens \/ Rebuilds

SpecBodyHelpers == InitBodyHelpers /\ [][NextBodyHelpers]_vars

\* the values a container holds for a key, in order of occurrence
RECURSIVE ValuesFor(_, _)
ValuesFor(e, key) ==
  IF e = <<>> THEN <<>>
  ELSE (IF Head(e)[1] = key THEN <<Head(e)[2]>> ELSE <<>>) \o ValuesFor(Tail(e), key)

KeysOf(e) == {e[i][1] : i \in 1..Len(e)}

\* the property of a flattened object for a key
PropertyOf(object, key) == object.e[IndexOfKey(object.e, key)][2]

\* C16: flattening maps a key that occurs once to a scalar and a key that
\* occurs more than once to the sequence of its values in order; rebuilding
\* the flattened structure unchanged gives a container with the same number of
\* entries holding, for every key, the same values in the same order.
C16_FlattenRebuildRoundTrip ==
  helper.fn = "roundTrip" =>
    /\ helper.step >= 1 =>
         /\ KeysOf(helper.object.e) = KeysOf(helper.input.e)
         /\ \A key \in KeysOf(helper.input.e) :
              LET values == ValuesFor(helper.input.e, key)
              IN  PropertyOf(helper.object, key) =
                    IF Len(values) = 1 THEN Lit(values[1])
                    ELSE Arr([i \in 1..Len(values) |-> Lit(values[i])])
    /\ helper.step = 2 =>
         /\ helper.rebuilt.t = helper.input.t
         /\ Len(helper.rebuilt.e) = Len(helper.input.e)
         /\ \A key \in KeysOf(helper.input.e) \cup KeysOf(helper.rebuilt.e) :
              ValuesFor(helper.rebuilt.e, key) = ValuesFor(helper.input.e, key)

---------------------------------------------------------------------------
(* Claims about the response side. *)

AsksOf(slot) == Cardinality({i \in 1..Len(log) : log[i].ev = "adapter" /\ log[i].slot = slot})

ValidatingMethods == {"json", "formData", "urlSearchParams"}

\* C5: a second body-reading call on the same response object fails; a clone
\* taken before reading and its original can each be read once, in either
\* order, and the same method gives the same outcome on both.
C5_OneShotAndCloneSameData ==
  /\ \A i \in 1..Len(reads) : ReadBefore(i) => ~reads[i].ok
  /\ \A i, j \in 1..Len(reads) :
       (/\ resps[reads[j].inst].cloneOf = reads[i].inst
        /\ reads[i].method = reads[j].method
        /\ ~ReadBefore(i) /\ ~ReadBefore(j))
         => (reads[i].ok = reads[j].ok /\ reads[i].val = reads[j].val)

\* C6: clone() on a decorator gives a decorator carrying the same response
\* body schema and response header schema as the original.
C6_CloneIsDecorator ==
  \A i \in 1..Len(resps) :
    resps[i].cloneOf # 0 =>
      LET original == resps[resps[i].cloneOf]
      IN  /\ resps[i].decorator
          /\ resps[i].responseSchema = original.responseSchema
          /\ resps[i].responseHeadersSchema = original.responseHeadersSchema

\* C7: for a decorator built with a response header schema, whatever the
\* adapter returns, the adapter is asked about the response headers once over
\* the construction and all validatedHeaders accesses, and every access gives
\* the value the construction cached.
C7_HeadersValidatedOnce ==
  (pc = "resolved" /\ call.validate.responseHeaders) =>
    /\ AsksOf("response.headers") = 1
    /\ \A i \in 1..Len(gets) :
         gets[i].inst = 1 => (gets[i].ok /\ gets[i].val = Parsed(resps[1].hdrOut, rawHeaders(resps[1])))

\* C8: when the adapter rejects the response headers, the call rejects with
\* the adapter's error and the caller holds no response object, so no body
\* method has been called; every decorator the caller holds had its headers
\* accepted.
C8_HeaderFailureRejectsFetch ==
  /\ (Asked("response.headers") /\ pc # "resolved") =>
       (/\ pc = "rejected" /\ err.kind = "adapter"
        /\ resps = <<>> /\ reads = <<>> /\ gets = <<>>)
  /\ \A i \in 1..Len(resps) : resps[i].hdrOut.k # "throw"

\* the response arrived and the adapter rejected its headers
C8_Witness ==
  /\ pc = "rejected" /\ sent # <<>> /\ AsksOf("response.headers") = 1
  /\ err = [kind |-> "adapter", id |-> "E-response-headers"]
  /\ call.validate.responseBody

\* C9: response body validation is lazy and response header validation eager:
\* the call resolves whatever the body schema will say, the adapter is asked
\* about the body only by json(), formData() or urlSearchParams() calls, an
\* adapter error on the body is the outcome of such a call, and a decorator
\* with a header schema has had its headers validated before any access.
C9_LazyBodyEagerHeaders ==
  /\ pc # "resolved" => AsksOf("response.body") = 0
  /\ AsksOf("response.body")
       = Cardinality({i \in 1..Len(reads) : reads[i].out.k # "unasked"})
  /\ \A i \in 1..Len(reads) :
       /\ reads[i].out.k # "unasked" =>
            (reads[i].method \in ValidatingMethods /\ resps[reads[i].inst].responseSchema)
       /\ reads[i].out.k = "throw" =>
            (~reads[i].ok /\ reads[i].err = [kind |-> "adapter", id |-> reads[i].out.e])
  /\ (pc = "resolved" /\ call.validate.responseHeaders) => AsksOf("response.headers") >= 1

\* a resolved call whose body the schema rejects: the first json() raises it
C9_Witness ==
  /\ pc = "resolved" /\ call.validate.responseBody /\ call.validate.responseHeaders
  /\ Len(reads) = 1 /\ reads[1].method = "json" /\ reads[1].inst = 1
  /\ reads[1].err = [kind |-> "adapter", id |-> "E-response-body"]

\* C10: formData() and urlSearchParams() under a response body schema fail
\* whenever the validated result is not a key-to-value mapping (a primitive,
\* null, or an array).
C10_NonMappingFails ==
  \A i \in 1..Len(reads) :
    (/\ reads[i].method \in {"formData", "urlSearchParams"}
     /\ reads[i].out.k = "return"
     /\ reads[i].out.v.t # "object")
      => ~reads[i].ok

---------------------------------------------------------------------------
(* The whole pipeline: calls with a schema in any of the four slots, the   *)
(* schemas run through a bundled adapter, up to the caller's first read.   *)

\* what a schema library gives its adapter: a value, issues, or a pending result
SchemaResults == {"value", "issues", "promise"}

\* valibotAdapter.parse
valibotAdapter(result) ==
  CASE result = "promise" -> Throw("Valibot async schemas are not supported")
    [] result = "issues" -> Throw("Valibot validation failed")
    [] OTHER -> Same

\* zodAdapter.parse: whatever schema.parse(data) throws or returns
zodAdapter(result) ==
  CASE result = "promise" -> Return(Pending)
    [] result = "issues" -> Throw("ZodError")
    [] OTHER -> Same

AdapterOutcomes ==
  {valibotAdapter(result) : result \in SchemaResults}
    \cup {zodAdapter(result) : result \in SchemaResults}

PipelineHeaderInputs ==
  {NoHeaders} \cup HeaderInputs("object", {<< <<"Content-Type", Lit("application/json")>> >>})

PipelineBodies == {Undef, Obj(<< <<"a", Num(1)>> >>), Lit("oops")}

ValidateBlocks ==
  [requestBody : BOOLEAN, requestHeaders : BOOLEAN, responseBody : BOOLEAN,
   responseHeaders : BOOLEAN]

PipelineCall(h, b, v, ho, bo) ==
  [input |-> StringTarget, options |-> [method |-> "POST"], headers |-> h, body |-> b,
   validate |-> v, hdrOut |-> ho, bodyOut |-> bo]

FetchPipeline ==
  /\ pc = "idle"
  /\ \E h \in PipelineHeaderInputs, b \in PipelineBodies, v \in ValidateBlocks :
       \E ho \in OutcomesFor(v.requestHeaders, AdapterOutcomes),
          bo \in OutcomesFor(v.requestBody, AdapterOutcomes) :
         Fetch(PipelineCall(h, b, v, ho, bo))
ResolvesPipeline ==
  /\ pc = "awaiting"
  /\ \E r \in Responses :
       \E ho \in OutcomesFor(call.validate.responseHeaders, AdapterOutcomes) :
         TransportResolves(r, ho)
\* the caller's first body-reading call
ReadsPipeline ==
  /\ reads = <<>>
  /\ \E i \in 1..Len(resps), m \in BodyMethods :
       \E out \in OutcomesFor(AsksAdapter(resps[i], m), AdapterOutcomes) : Read(i, m, out)

NextPipeline == FetchPipeline \/ ResolvesPipeline \/ Rejects \/ ReadsPipeline \/ Gets

SpecPipeline == InitRequest /\ [][NextPipeline]_vars

\* the places in the log of the events of one kind
EventsAt(ev, slot) == {i \in 1..Len(log) : log[i].ev = ev /\ log[i].slot = slot}
AllBefore(earlier, later) == \A i \in earlier, j \in later : i < j

\* C21: when the adapter returns a pending result for a slot, the call (or the
\* body-reading call) fails: on the request side the transport is not invoked,
\* and no decorator, validatedHeaders access or body method carries the
\* pending result or what it settles to.
C21_PendingResultRejected ==
  /\ (Asked("request.headers") /\ call.hdrOut = Return(Pending)) =>
       (pc = "rejected" /\ ~TransportInvoked)
  /\ (Asked("request.body") /\ call.bodyOut = Return(Pending)) =>
       (pc = "rejected" /\ ~TransportInvoked)
  /\ \A i \in 1..Len(resps) : resps[i].hdrOut # Return(Pending)
  /\ \A i \in 1..Len(reads) : reads[i].out = Return(Pending) => ~reads[i].ok

\* C22: when the transport fails, the call rejects with the transport's own
\* error, the caller holds no response object, the response headers were never
\* validated, and the transport was invoked once.
C22_TransportFailurePropagates ==
  \A i \in EventsAt("transport failed", "") :
    /\ pc = "rejected"
    /\ err = [kind |-> "transport", id |-> log[i].data.c.lit]
    /\ resps = <<>> /\ reads = <<>> /\ gets = <<>>
    /\ Len(sent) = 1
    /\ Cardinality(EventsAt("transport", "")) = 1
    /\ EventsAt("adapter", "response.headers") = {}

\* a call with validated request body and a response header schema, aborted
C22_Witness ==
  /\ pc = "rejected" /\ err = [kind |-> "transport", id |-> "AbortError"]
  /\ call.validate.requestBody /\ Asked("request.body")
  /\ call.validate.responseHeaders
  /\ Len(sent) = 1

\* C24: in every call the request headers are validated before the request
\* body, both before the transport is invoked, and the response headers after
\* it; a slot with a schema is not skipped on the way to the transport; the
\* transport is invoked at most once.
C24_EventOrder ==
  /\ AllBefore(EventsAt("adapter", "request.headers"), EventsAt("adapter", "request.body"))
  /\ AllBefore(EventsAt("adapter", "request.headers") \cup EventsAt("adapter", "request.body"),
               EventsAt("transport", ""))
  /\ AllBefore(EventsAt("transport", ""), EventsAt("adapter", "response.headers"))
  /\ Cardinality(EventsAt("transport", "")) <= 1
  /\ Len(sent) = Cardinality(EventsAt("transport", ""))
  /\ TransportInvoked =>
       /\ call.validate.requestHeaders => Asked("request.headers")
       /\ (call.validate.requestBody /\ ~IsNullish(call.body)) => Asked("request.body")
  /\ Asked("response.headers") => TransportInvoked
  /\ (pc = "resolved" /\ call.validate.responseHeaders) => Asked("response.headers")

\* a resolved call with a schema in every slot: the four events in order
C24_Witness ==
  /\ pc = "resolved" /\ Len(log) = 4
  /\ log[1].slot = "request.headers" /\ log[2].slot = "request.body"
  /\ log[3].ev = "transport" /\ log[4].slot = "response.headers"

\* C30: with a request header schema and no headers supplied, the adapter is
\* asked once, about the empty map, and when it throws the call rejects with
\* its error and the transport has not been invoked.
C30_AbsentHeadersValidated ==
  (pc # "idle" /\ call.headers = NoHeaders /\ call.validate.requestHeaders) =>
    /\ AsksOf("request.headers") = 1
    /\ GivenToHeaderSchema = Obj(<<>>)
    /\ call.hdrOut.k = "throw" =>
         (pc = "rejected" /\ err = [kind |-> "adapter", id |-> call.hdrOut.e]
          /\ ~TransportInvoked)

\* no headers supplied, and the schema's required header is missing
C30_Witness ==
  /\ pc = "rejected" /\ call.headers = NoHeaders /\ call.validate.requestHeaders
  /\ call.hdrOut.k = "throw" /\ sent = <<>>
  /\ call.validate.requestBody /\ ~IsNullish(call.body)

---------------------------------------------------------------------------
(* Claims about the caller's headers and the content type on the request   *)
(* side.                                                                   *)

\* the values the caller gave under a header name, case ignored
CallerValues(name) ==
  {call.headers.e[i][2] : i \in {j \in 1..Len(call.headers.e) : Lower(call.headers.e[j][1]) = name}}

\* what the adapter was given for the request body
GivenToBodySchema ==
  log[CHOOSE i \in 1..Len(log) : log[i].ev = "adapter" /\ log[i].slot = "request.body"].data

\* C25: without a request header schema, a call whose headers hold a null or
\* undefined value fails, and the transport is not invoked.
C25_NullishHeaderIsCallerError ==
  (/\ pc # "idle" /\ ~call.validate.requestHeaders
   /\ \E i \in 1..Len(call.headers.e) : IsNullish(call.headers.e[i][2]))
    => (pc = "rejected" /\ ~TransportInvoked)

\* C26: a string body that is not JSON text, sent with the caller's
\* content-type application/json under a header schema that does not emit
\* content-type: in preserve mode the call fails with the invalid-JSON-body
\* error before the body schema is asked; in strict mode the body schema is
\* asked about the string itself.
C26_ContentTypeAfterHeaderValidation ==
  (/\ pc # "idle"
   /\ call.validate.requestHeaders /\ call.validate.requestBody
   /\ call.hdrOut.k # "throw"
   /\ call.body.t = "string" /\ ParseThrows(call.body)
   /\ CallerValues("content-type") = {Lit("application/json")}
   /\ "content-type" \notin EmittedNames)
    => IF config.headerValidationMode = "preserve"
       THEN /\ pc = "rejected" /\ err.kind = "InvalidJsonRequestBody"
            /\ ~Asked("request.body") /\ ~TransportInvoked
       ELSE /\ AsksOf("request.body") = 1
            /\ GivenToBodySchema = call.body
            /\ call.bodyOut.k = "throw" =>
                 (pc = "rejected" /\ err = [kind |-> "adapter", id |-> call.bodyOut.e])

\* strict mode: the caller's content-type is gone and the schema sees the string
C26_Witness ==
  /\ config.headerValidationMode = "strict"
  /\ call.validate.requestHeaders /\ call.hdrOut = Return(Obj(<< <<"x-a", Lit("2")>> >>))
  /\ CallerValues("content-type") = {Lit("application/json")}
  /\ call.body = Lit("oops") /\ call.bodyOut.k = "same"
  /\ Asked("request.body") /\ pc = "awaiting"

\* C27: with a request header schema and a request body schema, the headers
\* handed to the transport are those the header step left; content-type is
\* absent when neither the caller nor the schema gave one.
C27_BodyStepLeavesContentType ==
  (pc = "awaiting" /\ call.validate.requestHeaders /\ call.validate.requestBody) =>
    /\ sent[1].headers = HeaderStepHeaders
    /\ (CallerValues("content-type") = {} /\ "content-type" \notin EmittedDefined)
         => "content-type" \notin DOMAIN sent[1].headers

\* an object body validated and sent as JSON text, without a content-type
C27_Witness ==
  /\ pc = "awaiting" /\ call.validate.requestHeaders /\ call.validate.requestBody
  /\ call.body.t = "object" /\ call.bodyOut.k = "same"
  /\ sent[1].body = JsonText(call.body)
  /\ "content-type" \notin DOMAIN sent[1].headers

---------------------------------------------------------------------------
(* Claims about failed body-reading calls. *)

\* C29: on a decorator with a response body schema, a json(), formData() or
\* urlSearchParams() call leaves the body used; when the call failed, every
\* later body-reading call on that decorator fails; when the schema rejected
\* the data, no body-reading call on that decorator returns anything.
C29_FailedReadConsumesBody ==
  \A i \in 1..Len(reads) :
    LET r == resps[reads[i].inst]
    IN  (r.decorator /\ r.responseSchema /\ reads[i].method \in ValidatingMethods) =>
          /\ r.bodyUsed
          /\ ~reads[i].ok =>
               \A j \in (i + 1)..Len(reads) : reads[j].inst = reads[i].inst => ~reads[j].ok
          /\ reads[i].out.k = "throw" =>
               \A j \in 1..Len(reads) : reads[j].inst = reads[i].inst => ~reads[j].ok

\* the schema rejects what json() decoded, and text() is tried afterwards
C29_Witness ==
  /\ Len(reads) = 2 /\ reads[1].inst = 1 /\ reads[2].inst = 1
  /\ reads[1].method = "json" /\ reads[1].out.k = "throw" /\ ~reads[1].ok
  /\ reads[2].method = "text" /\ ~reads[2].ok
  /\ resps[1].bodyUsed

---------------------------------------------------------------------------
(* formData() over what the response body schema returned, under each      *)
(* value policy.                                                           *)

MaxFields == 2

FormDataValues ==
  { Lit("s"), Num(7), Bool(TRUE), Null, Undef, Obj(<< <<"n", Num(1)>> >>), Binary("Blob"),
    Arr(<< Lit("s"), Null >>) }

FormDataOutcomes ==
  {Return(Obj(l)) : l \in {f \in PairLists({"k", "m"} \X FormDataValues, MaxFields) :
                             DistinctKeys(f)}}
    \cup {Throw("E-response-body"), Same}

InitFormData ==
  /\ Idle
  /\ config \in [headerValidationMode : {"preserve"},
                 formDataValueMode : {"unset", "native", "strict"}]

FetchFormData == pc = "idle" /\ \E vb \in BOOLEAN : Fetch(ResponseCall(vb, FALSE))
ReadsFormData ==
  \E i \in 1..Len(resps) :
    \E out \in OutcomesFor(AsksAdapter(resps[i], "formData"), FormDataOutcomes) :
      Read(i, "formData", out)

NextFormData == FetchFormData \/ Resolves \/ Rejects \/ ReadsFormData

SpecFormData == InitFormData /\ [][NextFormData]_vars

\* C28: when formData() rebuilds form-data from the object the schema
\* returned, item by item: under the native policy, also when no policy is
\* set, it gives each Blob as it is and every other item as its string
\* coercion; under the strict policy it fails when an item is neither a Blob
\* nor a string, number or boolean, and otherwise gives the same entries.
C28_FormDataValuePolicy ==
  \A i \in 1..Len(reads) :
    (/\ reads[i].method = "formData" /\ reads[i].out.k = "return"
     /\ reads[i].out.v.t = "object") =>
      LET items == Appends(reads[i].out.v.e)
          refused == {n \in 1..Len(items) :
                        items[n][2].t \notin {"Blob", "string", "number", "boolean"}}
      IN  IF config.formDataValueMode = "strict" /\ refused # {}
          THEN ~reads[i].ok /\ reads[i].err.kind = "Error"
          ELSE /\ reads[i].ok
               /\ reads[i].val.t = "FormData"
               /\ Len(reads[i].val.e) = Len(items)
               /\ \A n \in 1..Len(items) :
                    reads[i].val.e[n]
                      = <<items[n][1],
                          IF items[n][2].t = "Blob" THEN "<blob>" ELSE StringOf(items[n][2])>>

\* the strict policy refuses a null next to a Blob
C28_Witness ==
  /\ config.formDataValueMode = "strict"
  /\ Len(reads) = 1 /\ reads[1].method = "formData"
  /\ reads[1].out = Return(Obj(<< <<"k", Binary("Blob")>>, <<"m", Null>> >>))
  /\ ~reads[1].ok

---------------------------------------------------------------------------
(* Two calls on one client, interleaved. The variables pc .. gets hold the  *)
(* call that is running; the other call, suspended at one of its awaits or *)
(* between two of its caller's steps, is kept aside with all it holds.     *)

\* what a call holds: its locals in fetch and the caller's response objects
CallState ==
  [pc |-> pc, call |-> call, err |-> err, sent |-> sent, log |-> log, resps |-> resps,
   reads |-> reads, gets |-> gets]

IdleState ==
  [pc |-> "idle", call |-> NoCall, err |-> NoError, sent |-> <<>>, log |-> <<>>,
   resps |-> <<>>, reads |-> <<>>, gets |-> <<>>]

Suspended(state) == [fn |-> "suspended", state |-> state]

InitConcurrent ==
  /\ pc = "idle" /\ call = NoCall /\ err = NoError
  /\ sent = <<>> /\ log = <<>> /\ resps = <<>> /\ reads = <<>> /\ gets = <<>>
  /\ helper = Suspended(IdleState)
  /\ config \in {c \in Configs : c.formDataValueMode = "native"}

\* the event loop resumes the other call
Switch ==
  /\ helper.fn = "suspended"
  /\ pc' = helper.state.pc /\ call' = helper.state.call /\ err' = helper.state.err
  /\ sent' = helper.state.sent /\ log' = helper.state.log /\ resps' = helper.state.resps
  /\ reads' = helper.state.reads /\ gets' = helper.state.gets
  /\ helper' = Suspended(CallState)
  /\ UNCHANGED config

ConcurrentHeaderInputs ==
  {NoHeaders} \cup HeaderInputs("object", {<< <<"x-a", Lit("1")>> >>})
ConcurrentBodies == {Undef, Obj(<< <<"a", Num(1)>> >>)}
ConcurrentHeaderOutcomes == {Throw("E-request-headers"), Return(Obj(<< <<"X-B", Lit("2")>> >>))}
ConcurrentResponseOutcomes == {Throw("E-response"), Same}

ConcurrentCall(h, b, vh, vr, ho) ==
  [input |-> StringTarget, options |-> [method |-> "POST"], headers |-> h, body |-> b,
   validate |-> [requestBody |-> FALSE, requestHeaders |-> vh, responseBody |-> vr,
                 responseHeaders |-> vr],
   hdrOut |-> ho, bodyOut |-> Unasked]

FetchConcurrent ==
  /\ pc = "idle"
  /\ \E h \in ConcurrentHeaderInputs, b \in ConcurrentBodies, vh \in BOOLEAN, vr \in BOOLEAN :
       \E ho \in OutcomesFor(vh, ConcurrentHeaderOutcomes) :
         Fetch(ConcurrentCall(h, b, vh, vr, ho))
ResolvesConcurrent ==
  /\ pc = "awaiting"
  /\ \E r \in Responses :
       \E ho \in OutcomesFor(call.validate.responseHeaders, ConcurrentResponseOutcomes) :
         TransportResolves(r, ho)
ReadsConcurrent ==
  /\ pc = "resolved" /\ reads = <<>>
  /\ \E out \in OutcomesFor(AsksAdapter(resps[1], "json"), ConcurrentResponseOutcomes) :
       Read(1, "json", out)
GetsConcurrent == pc = "resolved" /\ gets = <<>> /\ GetValidatedHeaders(1)

NextConcurrent ==
  FetchConcurrent \/ ResolvesConcurrent \/ Rejects \/ ReadsConcurrent \/ GetsConcurrent
    \/ Switch

SpecConcurrent == InitConcurrent /\ [][NextConcurrent]_vars

\* the header names a call's own arguments can put on the wire
OwnHeaderNames(a) ==
  {Lower(a.headers.e[i][1]) : i \in 1..Len(a.headers.e)}
    \cup (IF a.hdrOut.k = "return" /\ a.hdrOut.v.t = "object"
          THEN {Lower(a.hdrOut.v.e[i][1]) : i \in 1..Len(a.hdrOut.v.e)} ELSE {})
    \cup (IF IsPlainStructure(a.body) THEN {"content-type"} ELSE {})

\* what a call holds follows from its own arguments, response and outcomes
OwnOutcome(st) ==
  /\ st.pc = "idle" => st = IdleState
  /\ st.sent # <<>> =>
       /\ Len(st.sent) = 1
       /\ st.sent[1].input = st.call.input
       /\ DOMAIN st.sent[1].headers \subseteq OwnHeaderNames(st.call)
       /\ st.sent[1].body
            = IF IsPlainStructure(st.call.body) THEN Stringify(st.call.body) ELSE st.call.body
       /\ st.call.hdrOut.k # "throw"
  /\ (st.pc # "idle" /\ st.sent = <<>>) =>
       (st.pc = "rejected" /\ st.call.hdrOut.k = "throw"
        /\ st.err = [kind |-> "adapter", id |-> st.call.hdrOut.e])
  /\ \A i \in 1..Len(st.resps) :
       /\ st.resps[i].responseSchema = st.call.validate.responseBody
       /\ st.resps[i].responseHeadersSchema = st.call.validate.responseHeaders
  /\ \A i \in 1..Len(st.reads) :
       LET r == st.resps[st.reads[i].inst]
       IN  IF st.reads[i].out.k = "throw" \/ ParseThrows(r.text)
           THEN ~st.reads[i].ok
           ELSE st.reads[i].ok /\ st.reads[i].val = Parse(r.text)
  /\ \A i \in 1..Len(st.gets) :
       st.gets[i].ok /\ st.gets[i].val = rawHeaders(st.resps[st.gets[i].inst])

\* C23: of two calls interleaved on one client, a step of the running call
\* (a fetch, a validation failure, a transport outcome, a body read, a
\* validatedHeaders access) leaves everything the other call holds as it was,
\* resuming the other call changes nothing either call holds, and what each
\* call sent and holds follows from its own arguments and response.
C23_CallsIndependent ==
  [][/\ \/ helper' = helper
        \/ helper' = Suspended(CallState) /\ CallState' = helper.state
     /\ OwnOutcome(CallState') /\ OwnOutcome(helper'.state)]_vars

\* one call rejected by its header schema while the other, fetched before it
\* and resumed after it, resolved and had its body read
C23_Witness ==
  /\ helper.fn = "suspended"
  /\ helper.state.pc = "rejected" /\ helper.state.sent = <<>>
  /\ pc = "resolved" /\ Len(reads) = 1 /\ reads[1].ok /\ Len(gets) = 1
  /\ call.headers = NoHeaders /\ helper.state.call.headers # NoHeaders

=============================================================================
